---- MODULE Spec2Model ----
(***************************************************************************)
(* Campaign targeting resolver of the smart-feed API.                      *)
(*                                                                         *)
(* State: the campaign catalog (table campaigns), the images of the        *)
(* campaigns (table campaign_images), the location directory (tables       *)
(* branches and stations), the Redis store behind the cache decorator,    *)
(* the last HTTP response produced and the log of the Protheus             *)
(* synchronizations (table sync_logs).                                     *)
(* Operations: the campaign CRUD handlers, the image handlers, the branch  *)
(* and station handlers, the two resolve handlers (dashboard               *)
(* active_by_station, tablet get_active_for_station), the two all-active   *)
(* listings and the Protheus synchronization of the branches, started by   *)
(* the admin endpoint or by the scheduler.                                 *)
(***************************************************************************)
EXTENDS Integers, Sequences, FiniteSets, TLC

VARIABLES campaigns, images, branches, stations, redis, resp, sync_logs

vars == <<campaigns, images, branches, stations, redis, resp, sync_logs>>

(***************************************************************************)
(* Bounds of the model.                                                    *)
(***************************************************************************)
\* timestamps are 0..MaxTime (one unit = one second)
MaxTime == 2
\* priorities are None or 0..MaxPriority
MaxPriority == 2
\* number of campaign rows in the ranking specification
MaxCampaigns == 3

Times == 0..MaxTime

(***************************************************************************)
(* Values.                                                                 *)
(***************************************************************************)
\* Python None / SQL NULL of a string-valued expression
NULL == "NULL"
\* Python None of the integer column priority; a set priority p is <<p>>
NoPriority == <<>>
\* Python None of the integer column display_time; a set time t is <<t>>
NoDisplayTime == <<>>
\* default of Campaign.default_display_time, in milliseconds
DEFAULT_DISPLAY_TIME == 5000
\* Python None where a station row is expected
NoStation == [branch_id |-> NULL, code |-> NULL, is_active |-> FALSE]

STATUSES == {"active", "scheduled", "paused", "expired"}

REGIONS == {"Norte", "Nordeste", "Centro-Oeste", "Sudeste", "Sul"}

STATE_TO_REGION ==
  [s \in {"AC", "AP", "AM", "PA", "RO", "RR", "TO"} |-> "Norte"] @@
  [s \in {"AL", "BA", "CE", "MA", "PB", "PE", "PI", "RN", "SE"} |-> "Nordeste"] @@
  [s \in {"DF", "GO", "MT", "MS"} |-> "Centro-Oeste"] @@
  [s \in {"ES", "MG", "RJ", "SP"} |-> "Sudeste"] @@
  [s \in {"PR", "RS", "SC"} |-> "Sul"]

\* str.upper() on the state codes the model uses
Upper(s) ==
  CASE s = "sp" -> "SP"
    [] s = "rs" -> "RS"
    [] OTHER -> s

get_region_by_state(state) ==
  IF Upper(state) \in DOMAIN STATE_TO_REGION
    THEN STATE_TO_REGION[Upper(state)]
    ELSE NULL

is_valid_region(region) == region \in REGIONS

\* Branch.region property
BranchRegion(b) == get_region_by_state(branches[b].state)

(***************************************************************************)
(* Campaign Catalog: fetch_candidates.                                     *)
(***************************************************************************)
StoredIds == DOMAIN campaigns

WindowWrongFilter(c, now) == c.start_date < now /\ c.end_date > now

\* the date part of the query filter: start_date <= now, end_date >= now
WindowFilter(c, now) == c.start_date <= now /\ c.end_date >= now

\* the stored-status part of the query filter
StatusFilter(c) == c.is_deleted = FALSE /\ c.status = "active"

CandidateFilter(c, now) == StatusFilter(c) /\ WindowFilter(c, now)

CandidateIds(now) == {id \in StoredIds : CandidateFilter(campaigns[id], now)}

\* every order in which a query without ORDER BY may return a set of rows
Orders(S) ==
  {o \in [1..Cardinality(S) -> S] : \A i, j \in DOMAIN o : i # j => o[i] # o[j]}

(***************************************************************************)
(* Location Directory.                                                     *)
(***************************************************************************)
StationsIgnoringActive(station_code) ==
  {s \in stations : s.code = station_code}

\* rows matched by Station.code == station_code, Station.is_active == True
ActiveStations(station_code) ==
  {s \in stations : s.code = station_code /\ s.is_active}

(***************************************************************************)
(* Targeting Resolver.                                                     *)
(***************************************************************************)
IsGlobal(c) == c.branches = {} /\ c.regions = {} /\ c.stations = {}

MatchesGlobalNeedsStation(c, found, branch_code, region, station_code) ==
  IF ~found THEN FALSE
  ELSE IF IsGlobal(c) THEN TRUE
  ELSE IF c.regions # {} /\ c.branches = {} /\ c.stations = {}
    THEN region \in c.regions
  ELSE IF c.branches # {} /\ c.stations = {}
    THEN branch_code \in c.branches
  ELSE IF c.branches # {} /\ c.stations # {}
    THEN branch_code \in c.branches /\ station_code \in c.stations
  ELSE FALSE

MatchesRegionalAnywhere(c, found, branch_code, region, station_code) ==
  IF IsGlobal(c) THEN TRUE
  ELSE IF ~found THEN FALSE
  ELSE IF c.regions # {} /\ c.branches = {} /\ c.stations = {}
    THEN TRUE
  ELSE IF c.branches # {} /\ c.stations = {}
    THEN branch_code \in c.branches
  ELSE IF c.branches # {} /\ c.stations # {}
    THEN branch_code \in c.branches /\ station_code \in c.stations
  ELSE FALSE

MatchesBranchAnywhere(c, found, branch_code, region, station_code) ==
  IF IsGlobal(c) THEN TRUE
  ELSE IF ~found THEN FALSE
  ELSE IF c.regions # {} /\ c.branches = {} /\ c.stations = {}
    THEN region \in c.regions
  ELSE IF c.branches # {} /\ c.stations = {}
    THEN TRUE
  ELSE IF c.branches # {} /\ c.stations # {}
    THEN branch_code \in c.branches /\ station_code \in c.stations
  ELSE FALSE

\* body of the classification loop: TRUE iff the campaign is appended
\* a fourth rule that asks for the station code alone
MatchesStationAlone(c, found, branch_code, region, station_code) ==
  IF IsGlobal(c) THEN TRUE
  ELSE IF ~found THEN FALSE
  ELSE IF c.regions # {} /\ c.branches = {} /\ c.stations = {} THEN region \in c.regions
  ELSE IF c.branches # {} /\ c.stations = {} THEN branch_code \in c.branches
  ELSE IF c.stations # {} THEN station_code \in c.stations
  ELSE FALSE

Matches(c, found, branch_code, region, station_code) ==
  IF IsGlobal(c) THEN TRUE
  ELSE IF ~found THEN FALSE
  ELSE IF c.regions # {} /\ c.branches = {} /\ c.stations = {}
    THEN region \in c.regions
  ELSE IF c.branches # {} /\ c.stations = {}
    THEN branch_code \in c.branches
  ELSE IF c.branches # {} /\ c.stations # {}
    THEN branch_code \in c.branches /\ station_code \in c.stations
  ELSE FALSE

\* a label that says regional whenever regions is set
targeting_level_by_regions(c) ==
  IF c.branches = {} /\ c.regions = {} /\ c.stations = {} THEN "global"
  ELSE IF c.regions # {} THEN "regional"
  ELSE IF c.branches # {} /\ c.stations = {} THEN "branch"
  ELSE "station"

\* the conditional expression that labels a returned campaign
targeting_level(c) ==
  IF c.branches = {} /\ c.regions = {} /\ c.stations = {} THEN "global"
  ELSE IF c.regions # {} /\ c.branches = {} THEN "regional"
  ELSE IF c.branches # {} /\ c.stations = {} THEN "branch"
  ELSE "station"

\* first component of the sort key: -x.priority if x.priority else 0
PriorityKey(c) ==
  IF c.priority = NoPriority \/ c.priority = <<0>> THEN 0 ELSE 0 - c.priority[1]

\* a key without the creation time
SortKeyPriorityOnly(c) == <<PriorityKey(c), 0>>

SortKey(c) == <<PriorityKey(c), c.created_at>>

\* tuple comparison of two sort keys
KeyLess(a, b) == a[1] < b[1] \/ (a[1] = b[1] /\ a[2] < b[2])

\* position at which a stable descending sort places x in a sorted prefix
InsertAt(sorted, x) ==
  LET key(id) == SortKey(campaigns[id])
      smaller == {i \in DOMAIN sorted : KeyLess(key(sorted[i]), key(x))}
  IN IF smaller = {} THEN Len(sorted) + 1
     ELSE CHOOSE i \in smaller : \A j \in smaller : i <= j

Insert(sorted, x) ==
  LET p == InsertAt(sorted, x)
  IN SubSeq(sorted, 1, p - 1) \o <<x>> \o SubSeq(sorted, p, Len(sorted))

RECURSIVE SortedReverse(_)
\* sorted(campaigns, key=..., reverse=True): descending and stable
SortedReverse(seq) ==
  IF seq = <<>> THEN <<>>
  ELSE Insert(SortedReverse(SubSeq(seq, 1, Len(seq) - 1)), seq[Len(seq)])

RECURSIVE Unique(_, _)
\* the seen/unique_campaigns loop
Unique(seq, seen) ==
  IF seq = <<>> THEN <<>>
  ELSE IF Head(seq) \in seen THEN Unique(Tail(seq), seen)
  ELSE <<Head(seq)>> \o Unique(Tail(seq), seen \cup {Head(seq)})

SelectMatching(all_campaigns, found, branch_code, region, station_code) ==
  SelectSeq(all_campaigns,
            LAMBDA id : Matches(campaigns[id], found, branch_code, region, station_code))

\* a classification loop that appends a global campaign a second time and a
\* return that skips the seen-loop
RankedRepeatingGlobal(all_campaigns, found, branch_code, region, station_code) ==
  SortedReverse(
    SelectMatching(all_campaigns, found, branch_code, region, station_code)
      \o SelectSeq(all_campaigns, LAMBDA id : IsGlobal(campaigns[id])))

\* the ranked list a resolve computes from the rows the two queries returned
Ranked(all_campaigns, found, branch_code, region, station_code) ==
  Unique(SortedReverse(
           SelectMatching(all_campaigns, found, branch_code, region, station_code)), {})

(***************************************************************************)
(* Resolve handlers (GET /campaigns/active/{code}, GET /tablets/active/..) *)
(*                                                                         *)
(* station: the row Query.first() returned, or NoStation.                  *)
(* all_campaigns: the candidate rows in the order the query returned them. *)
(* dbfail: "none", or what raised inside the try-block: the station query  *)
(* ("station"), the catalog query ("catalog"), or the classification loop  *)
(* or the sort while handling one campaign ("classify"); drawn from the    *)
(* faults dbfails the environment of a specification can inject.           *)
(* terminal: the branch that owns the requesting terminal's station, NULL  *)
(* for a terminal of no registered station (not seen by the handler).      *)
(***************************************************************************)
DBFAILS == {"none", "station", "catalog", "classify"}

\* the priority field of a returned campaign: c.priority | c.priority or 0
ResponsePriority(surface, c) ==
  IF surface = "tablets" /\ c.priority = NoPriority THEN <<0>> ELSE c.priority

\* ORDER BY CampaignImage.order over rows that come in the order all_images
ByOrder(sorted, x) ==
  LET before == {i \in DOMAIN sorted : images[sorted[i]].order <= images[x].order}
      k == IF before = {} THEN 0 ELSE CHOOSE i \in before : \A j \in before : j <= i
  IN SubSeq(sorted, 1, k) \o <<x>> \o SubSeq(sorted, k + 1, Len(sorted))

RECURSIVE OrderedByOrder(_)
OrderedByOrder(all_images) ==
  IF all_images = <<>> THEN <<>>
  ELSE ByOrder(OrderedByOrder(SubSeq(all_images, 1, Len(all_images) - 1)),
               all_images[Len(all_images)])

\* a query that leaves out the filter on active
ImagesOfCampaign(campaign_id, all_images) ==
  OrderedByOrder(SelectSeq(all_images,
                   LAMBDA i : images[i].campaign_id = campaign_id))

\* the query of the active images of a campaign, ordered by order
ActiveImages(campaign_id, all_images) ==
  OrderedByOrder(SelectSeq(all_images,
                   LAMBDA i : images[i].campaign_id = campaign_id /\ images[i].active))

\* an element that carries the time the listing of the dashboard computes
FormattedImageResolved(campaign_id, i) ==
  [id |-> i, campaign_id |-> campaign_id,
   order_index |-> images[i].order,
   display_time |-> IF images[i].display_time = NoDisplayTime
                      THEN campaigns[campaign_id].default_display_time
                      ELSE images[i].display_time]

\* an element of formatted_images
FormattedImage(campaign_id, i) ==
  [id |-> i, campaign_id |-> campaign_id,
   order_index |-> images[i].order,
   display_time |-> images[i].display_time]

\* all_images: the rows of campaign_images in the order the table gives them
Entry(surface, id, all_images) ==
  LET entry == [id |-> id,
                default_display_time |-> campaigns[id].default_display_time,
                priority |-> ResponsePriority(surface, campaigns[id]),
                targeting_level |-> targeting_level(campaigns[id])]
      shown == ActiveImages(id, all_images)
  IN IF surface = "tablets"
       THEN [f \in DOMAIN entry \cup {"images"} |->
               IF f = "images"
                 THEN [k \in DOMAIN shown |-> FormattedImage(id, shown[k])]
                 ELSE entry[f]]
       ELSE entry

\* the 500 answer of an exception that leaves the handler
ServerError(surface, station_code, terminal) ==
  [kind |-> "resolve", surface |-> surface, station_code |-> station_code,
   terminal |-> terminal, http |-> 500]

\* the dict the handler returns
ResolveBody(surface, station_code, terminal, now, station, ranked, all_images) ==
  [kind |-> "resolve", surface |-> surface, station_code |-> station_code,
   terminal |-> terminal, http |-> 200,
   branch_code |-> IF station = NoStation THEN NULL ELSE branches[station.branch_id].code,
   region |-> IF station = NoStation THEN NULL ELSE BranchRegion(station.branch_id),
   campaigns |-> [i \in 1..Len(ranked) |-> Entry(surface, ranked[i], all_images)],
   total |-> Len(ranked),
   timestamp |-> now]

\* try-block, except-block and return statement of both resolve handlers
ResolveResponse(surface, station_code, terminal, now, station, all_campaigns, all_images, dbfail) ==
  IF dbfail = "station"
    \* the name station is never bound: the return statement raises
    THEN ServerError(surface, station_code, terminal)
  ELSE IF dbfail = "catalog"
    \* campaigns = [] in the except block; branch_code was never bound
    THEN IF station = NoStation
           THEN ResolveBody(surface, station_code, terminal, now, NoStation, <<>>, all_images)
           ELSE ServerError(surface, station_code, terminal)
  ELSE IF dbfail = "classify"
    \* campaigns = [] in the except block; branch_code and region are bound
    THEN ResolveBody(surface, station_code, terminal, now, station, <<>>, all_images)
  ELSE ResolveBody(surface, station_code, terminal, now, station,
         Ranked(all_campaigns,
                station # NoStation,
                IF station = NoStation THEN NULL ELSE branches[station.branch_id].code,
                IF station = NoStation THEN NULL ELSE BranchRegion(station.branch_id),
                station_code),
         all_images)

\* the outcomes of Query.first() over the active stations with this code
FirstStation(station_code) ==
  IF ActiveStations(station_code) = {} THEN {NoStation} ELSE ActiveStations(station_code)

\* the response together with what the server log of the request recorded
Logged(response, dbfail) ==
  [f \in DOMAIN response \cup {"dbfail"} |->
     IF f = "dbfail" THEN dbfail ELSE response[f]]

Resolve(surface, station_code, terminal, now, dbfails) ==
  /\ \E station \in FirstStation(station_code) :
       \E all_campaigns \in Orders(CandidateIds(now)) :
         \E all_images \in Orders(DOMAIN images) :
           \E dbfail \in dbfails :
             \* the loop body runs only over a campaign
             /\ dbfail = "classify" => all_campaigns # <<>>
             /\ resp' = Logged(ResolveResponse(surface, station_code, terminal, now,
                                                station, all_campaigns, all_images,
                                                dbfail),
                               dbfail)
  /\ UNCHANGED <<campaigns, images, branches, stations, redis, sync_logs>>

active_by_station(station_code, terminal, now, dbfails) ==
  Resolve("campaigns", station_code, terminal, now, dbfails)

get_active_for_station(station_code, terminal, now, dbfails) ==
  Resolve("tablets", station_code, terminal, now, dbfails)

(***************************************************************************)
(* All-active listings (GET /campaigns/active, GET /tablets/active) behind *)
(* the cache decorator.                                                    *)
(***************************************************************************)
\* ORDER BY priority DESC, created_at DESC (NULL priorities first)
ListedBefore(a, b) ==
  IF a.priority # b.priority
    THEN \/ a.priority = NoPriority
         \/ (b.priority # NoPriority /\ a.priority[1] > b.priority[1])
    ELSE a.created_at >= b.created_at

ListingOrders(now) ==
  {o \in Orders(CandidateIds(now)) :
     \A i, j \in DOMAIN o : i < j => ListedBefore(campaigns[o[i]], campaigns[o[j]])}

KEY_PREFIX == [campaigns |-> "active_all", tablets |-> "tablets_active_all"]

\* the key the wrapper builds: the prefix and str() of the db session argument
CacheKey(surface, session) == <<KEY_PREFIX[surface], session>>

ListingBody(surface, now, items) ==
  [kind |-> "listing", surface |-> surface, http |-> 200,
   campaigns |-> [i \in 1..Len(items) |->
                    [id |-> items[i], stations |-> campaigns[items[i]].stations]],
   timestamp |-> now]

\* wrapper of the cache decorator around get_all_active
get_all_active(surface, now, session, redis_up) ==
  LET key == CacheKey(surface, session)
  IN /\ IF redis_up /\ key \in DOMAIN redis
          THEN /\ resp' = redis[key]
               /\ redis' = redis
          ELSE \E items \in ListingOrders(now) :
                 /\ resp' = ListingBody(surface, now, items)
                 /\ redis' = IF redis_up
                               THEN [k \in DOMAIN redis \cup {key} |->
                                       IF k = key THEN resp' ELSE redis[k]]
                               ELSE redis
     /\ UNCHANGED <<campaigns, images, branches, stations, sync_logs>>

\* Redis drops an entry when its expire time (120 s) has elapsed
cache_expire(key) ==
  /\ key \in DOMAIN redis
  /\ redis' = [k \in DOMAIN redis \ {key} |-> redis[k]]
  /\ UNCHANGED <<campaigns, images, branches, stations, resp, sync_logs>>

\* invalidate(pattern): delete every key whose prefix matches
Invalidated(prefixes) ==
  [k \in {x \in DOMAIN redis : x[1] \notin prefixes} |-> redis[k]]

(***************************************************************************)
(* Campaign handlers.                                                      *)
(***************************************************************************)
ROLES == {"admin", "editor", "viewer"}

Status(kind, http) == [kind |-> kind, http |-> http]

\* the answer of a request that went on to its invalidate() calls, with the
\* prefixes of the patterns it passed to them
Mutated(kind, http, patterns) ==
  [kind |-> kind, http |-> http, invalidated |-> patterns]

\* uuid.uuid4(): an id no stored row has
NewId(ids) == CHOOSE id \in ids \ StoredIds : \A other \in ids \ StoredIds : id <= other

\* validators of CampaignBase
CreateValid(payload) ==
  /\ \A r \in payload.regions : is_valid_region(r)
  /\ ~(payload.stations # {} /\ payload.branches = {})

create_campaign(role, payload, created_at, ids) ==
  /\ ids \ StoredIds # {}
  /\ IF role \notin {"admin", "editor"}
       THEN /\ resp' = Status("create_campaign", 403)
            /\ UNCHANGED campaigns
     ELSE IF ~CreateValid(payload)
       THEN /\ resp' = Status("create_campaign", 422)
            /\ UNCHANGED campaigns
     ELSE /\ campaigns' =
               [id \in StoredIds \cup {NewId(ids)} |->
                  IF id \in StoredIds THEN campaigns[id]
                  ELSE [status |-> payload.status,
                        start_date |-> payload.start_date,
                        end_date |-> payload.end_date,
                        branches |-> payload.branches,
                        regions |-> payload.regions,
                        stations |-> payload.stations,
                        priority |-> payload.priority,
                        default_display_time |->
                          IF "default_display_time" \in DOMAIN payload
                            THEN payload.default_display_time
                            ELSE <<DEFAULT_DISPLAY_TIME>>,
                        is_deleted |-> FALSE,
                        created_at |-> created_at]]
          /\ resp' = Mutated("create_campaign", 201, {"active_by_station"})
  /\ redis' = IF resp'.http = 201 THEN Invalidated({"active_by_station"}) ELSE redis
  /\ UNCHANGED <<images, branches, stations, sync_logs>>

\* validators of CampaignUpdate over the fields the request sets
UpdateValid(payload) ==
  /\ "regions" \in DOMAIN payload => \A r \in payload.regions : is_valid_region(r)
  /\ ~ /\ "stations" \in DOMAIN payload
       /\ payload.stations # {}
       /\ "branches" \in DOMAIN payload
       /\ payload.branches = {}

update_campaign(role, campaign_id, payload) ==
  /\ IF role \notin {"admin", "editor"}
       THEN /\ resp' = Status("update_campaign", 403)
            /\ UNCHANGED campaigns
     ELSE IF ~UpdateValid(payload)
       THEN /\ resp' = Status("update_campaign", 422)
            /\ UNCHANGED campaigns
     ELSE IF campaign_id \notin StoredIds \/ campaigns[campaign_id].is_deleted
       THEN /\ resp' = Status("update_campaign", 404)
            /\ UNCHANGED campaigns
     ELSE /\ campaigns' =
               [campaigns EXCEPT ![campaign_id] =
                  [f \in DOMAIN campaigns[campaign_id] |->
                     IF f \in DOMAIN payload THEN payload[f]
                     ELSE campaigns[campaign_id][f]]]
          /\ resp' = Mutated("update_campaign", 200, {"active_by_station"})
  /\ redis' = IF resp'.http = 200 THEN Invalidated({"active_by_station"}) ELSE redis
  /\ UNCHANGED <<images, branches, stations, sync_logs>>

delete_campaign(role, campaign_id) ==
  /\ IF role # "admin"
       THEN /\ resp' = Status("delete_campaign", 403)
            /\ UNCHANGED <<campaigns, redis>>
     ELSE IF campaign_id \notin StoredIds \/ campaigns[campaign_id].is_deleted
       THEN /\ resp' = Status("delete_campaign", 204)
            /\ UNCHANGED <<campaigns, redis>>
     ELSE /\ campaigns' = [campaigns EXCEPT ![campaign_id].is_deleted = TRUE]
          /\ resp' = Mutated("delete_campaign", 204, {"active_by_station"})
          /\ redis' = Invalidated({"active_by_station"})
  /\ UNCHANGED <<images, branches, stations, sync_logs>>

\* ORDER BY created_at DESC over the rows that are not deleted
ListedOrders ==
  {o \in Orders({id \in StoredIds : campaigns[id].is_deleted = FALSE}) :
     \A i, j \in DOMAIN o :
       i < j => campaigns[o[i]].created_at >= campaigns[o[j]].created_at}

\* GET /campaigns/
list_campaigns ==
  /\ \E items \in ListedOrders :
       resp' = [kind |-> "list_campaigns", http |-> 200,
                campaigns |-> [i \in DOMAIN items |->
                                 [id |-> items[i],
                                  is_deleted |-> campaigns[items[i]].is_deleted]]]
  /\ UNCHANGED <<campaigns, images, branches, stations, redis, sync_logs>>

\* GET /campaigns/{id}
get_campaign(id) ==
  /\ IF id \notin StoredIds \/ campaigns[id].is_deleted # FALSE
       THEN resp' = Status("get_campaign", 404)
       ELSE resp' = [kind |-> "get_campaign", http |-> 200,
                     campaigns |-> <<[id |-> id,
                                      is_deleted |-> campaigns[id].is_deleted]>>]
  /\ UNCHANGED <<campaigns, images, branches, stations, redis, sync_logs>>

(***************************************************************************)
(* Image handlers.  images maps the id of a row of campaign_images to its  *)
(* campaign_id, order, display_time and active.                            *)
(***************************************************************************)
\* the ids of the rows of campaign_images
ImageIds == 1..2

StoredImages == DOMAIN images

\* a or b of two optional integers
OrElse(a, b) == IF a = <<>> \/ a = <<0>> THEN b ELSE a

CampaignFound(campaign_id) ==
  campaign_id \in StoredIds /\ ~campaigns[campaign_id].is_deleted

\* the ids uuid4 gives to n new rows
NewImageIds(n, ids) ==
  CHOOSE new \in SUBSET (ids \ StoredImages) :
    /\ Cardinality(new) = n
    /\ \A a \in new : \A b \in (ids \ StoredImages) \ new : a < b

\* ImageService.upload_image: order, display_time and active are the
\* defaults of the columns
UploadedImage(campaign_id) ==
  [campaign_id |-> campaign_id, order |-> 0,
   display_time |-> NoDisplayTime, active |-> TRUE]

\* the files the loop stores before it meets an unsupported content type
Accepted(files) ==
  IF \A k \in DOMAIN files : files[k] THEN Len(files)
  ELSE (CHOOSE k \in DOMAIN files : ~files[k] /\ \A j \in 1..(k - 1) : files[j]) - 1

\* POST /campaigns/{campaign_id}/images; files[k] is whether the content
\* type of the k-th file is supported
upload_images(role, campaign_id, files, ids) ==
  /\ Len(files) <= Cardinality(ids \ StoredImages)
  /\ IF role \notin {"admin", "editor"}
       THEN /\ resp' = Status("upload_images", 403)
            /\ UNCHANGED <<images, redis>>
     ELSE IF ~CampaignFound(campaign_id)
       THEN /\ resp' = Status("upload_images", 404)
            /\ UNCHANGED <<images, redis>>
     ELSE /\ images' =
               [i \in StoredImages \cup NewImageIds(Accepted(files), ids) |->
                  IF i \in StoredImages THEN images[i] ELSE UploadedImage(campaign_id)]
          /\ IF Accepted(files) < Len(files)
               THEN /\ resp' = Status("upload_images", 400)
                    /\ UNCHANGED redis
               ELSE /\ resp' = Mutated("upload_images", 200,
                                       {"active_by_station", "tablets_active"})
                    /\ redis' = Invalidated({"active_by_station", "tablets_active"})
  /\ UNCHANGED <<campaigns, branches, stations, sync_logs>>

\* the index enumerate() gives the last occurrence of an id in the list
LastIndex(ordered_ids, i) ==
  (CHOOSE k \in DOMAIN ordered_ids :
     ordered_ids[k] = i /\ \A j \in DOMAIN ordered_ids : ordered_ids[j] = i => j <= k) - 1

\* ImageService.reorder_images
Reordered(campaign_id, ordered_ids) ==
  [i \in StoredImages |->
     IF images[i].campaign_id = campaign_id /\ \E k \in DOMAIN ordered_ids : ordered_ids[k] = i
       THEN [images[i] EXCEPT !.order = LastIndex(ordered_ids, i)]
       ELSE images[i]]

\* PUT /campaigns/{campaign_id}/images/order
reorder_images(role, campaign_id, order) ==
  /\ IF role \notin {"admin", "editor"}
       THEN /\ resp' = Status("reorder_images", 403)
            /\ UNCHANGED <<images, redis>>
     ELSE IF order = <<>>
       THEN /\ resp' = Status("reorder_images", 400)
            /\ UNCHANGED <<images, redis>>
     ELSE /\ images' = Reordered(campaign_id, order)
          /\ resp' = Mutated("reorder_images", 200,
                             {"active_by_station", "tablets_active"})
          /\ redis' = Invalidated({"active_by_station", "tablets_active"})
  /\ UNCHANGED <<campaigns, branches, stations, sync_logs>>

\* a position counted from 0
IndexFromZero(remaining_images, i) ==
  (CHOOSE k \in DOMAIN remaining_images : remaining_images[k] = i) - 1

\* the position of an image in the list of the remaining images
IndexOf(remaining_images, i) ==
  CHOOSE k \in DOMAIN remaining_images : remaining_images[k] = i

\* DELETE /campaigns/{campaign_id}/images/{image_id}
delete_image(role, campaign_id, image_id) ==
  /\ IF role \notin {"admin", "editor"}
       THEN /\ resp' = Status("delete_image", 403)
            /\ UNCHANGED <<images, redis>>
     ELSE IF ~CampaignFound(campaign_id)
       THEN /\ resp' = Status("delete_image", 404)
            /\ UNCHANGED <<images, redis>>
     ELSE IF ~ /\ image_id \in StoredImages
               /\ images[image_id].campaign_id = campaign_id
               /\ images[image_id].active
       THEN /\ resp' = Status("delete_image", 404)
            /\ UNCHANGED <<images, redis>>
     ELSE \E all_images \in Orders(StoredImages \ {image_id}) :
            LET remaining_images == ActiveImages(campaign_id, all_images)
            IN /\ images' =
                    [i \in StoredImages |->
                       IF i = image_id THEN [images[i] EXCEPT !.active = FALSE]
                       ELSE IF \E k \in DOMAIN remaining_images : remaining_images[k] = i
                         THEN [images[i] EXCEPT !.order = IndexOf(remaining_images, i)]
                       ELSE images[i]]
               /\ resp' = Mutated("delete_image", 200,
                                  {"active_by_station", "tablets_active"})
               /\ redis' = Invalidated({"active_by_station", "tablets_active"})
  /\ UNCHANGED <<campaigns, branches, stations, sync_logs>>

\* the limits of display_time in update_image, in milliseconds
MIN_DISPLAY_TIME == 1000

MAX_DISPLAY_TIME == 60000

\* PUT /images/{image_id}; update_data holds the fields the request sets
update_image(role, image_id, update_data) ==
  /\ IF role \notin {"admin", "editor"}
       THEN /\ resp' = Status("update_image", 403)
            /\ UNCHANGED <<images, redis>>
     ELSE IF image_id \notin StoredImages
       THEN /\ resp' = Status("update_image", 404)
            /\ UNCHANGED <<images, redis>>
     ELSE IF /\ "display_time" \in DOMAIN update_data
             /\ update_data.display_time # NoDisplayTime
             /\ \/ update_data.display_time[1] < MIN_DISPLAY_TIME
                \/ update_data.display_time[1] > MAX_DISPLAY_TIME
       THEN /\ resp' = Status("update_image", 400)
            /\ UNCHANGED <<images, redis>>
     ELSE /\ images' =
               [images EXCEPT ![image_id] =
                  [f \in DOMAIN images[image_id] |->
                     IF f \in DOMAIN update_data THEN update_data[f]
                     ELSE images[image_id][f]]]
          /\ resp' = Mutated("update_image", 200,
                             IF "active" \in DOMAIN update_data
                               THEN {"active_by_station", "tablets_active"}
                               ELSE {})
          /\ redis' = IF "active" \in DOMAIN update_data
                        THEN Invalidated({"active_by_station", "tablets_active"})
                        ELSE redis
  /\ UNCHANGED <<campaigns, branches, stations, sync_logs>>

\* GET /campaigns/{campaign_id}/images
list_campaign_images(campaign_id) ==
  /\ IF ~CampaignFound(campaign_id)
       THEN resp' = Status("list_campaign_images", 404)
       ELSE \E all_images \in Orders(StoredImages) :
              LET listed == ActiveImages(campaign_id, all_images)
              IN resp' =
                   [kind |-> "list_campaign_images", http |-> 200,
                    campaign_id |-> campaign_id,
                    default_display_time |-> campaigns[campaign_id].default_display_time,
                    total |-> Len(listed),
                    images |-> [k \in DOMAIN listed |->
                                  [id |-> listed[k],
                                   order |-> images[listed[k]].order,
                                   display_time |->
                                     OrElse(images[listed[k]].display_time,
                                            campaigns[campaign_id].default_display_time),
                                   active |-> images[listed[k]].active]]]
  /\ UNCHANGED <<campaigns, images, branches, stations, redis, sync_logs>>

(***************************************************************************)
(* Branch handlers.                                                        *)
(***************************************************************************)
is_valid_state(state) == Upper(state) \in DOMAIN STATE_TO_REGION

\* PUT /branches/{branch_id}; branch_data holds the fields the request sets
update_branch(role, branch_id, branch_data) ==
  /\ IF role # "admin"
       THEN /\ resp' = Status("update_branch", 403)
            /\ UNCHANGED branches
     ELSE IF "state" \in DOMAIN branch_data /\ ~is_valid_state(branch_data.state)
       THEN /\ resp' = Status("update_branch", 422)
            /\ UNCHANGED branches
     ELSE IF branch_id \notin DOMAIN branches
       THEN /\ resp' = Status("update_branch", 404)
            /\ UNCHANGED branches
     ELSE /\ branches' =
               [branches EXCEPT ![branch_id] =
                  [f \in DOMAIN branches[branch_id] |->
                     IF f \notin DOMAIN branch_data THEN branches[branch_id][f]
                     ELSE IF f = "state" THEN Upper(branch_data.state)
                     ELSE branch_data[f]]]
          /\ resp' = Status("update_branch", 200)
  /\ UNCHANGED <<campaigns, images, stations, redis, sync_logs>>

\* DELETE /branches/{branch_id}
delete_branch(role, branch_id) ==
  /\ IF role # "admin"
       THEN /\ resp' = Status("delete_branch", 403)
            /\ UNCHANGED branches
     ELSE IF branch_id \notin DOMAIN branches
       THEN /\ resp' = Status("delete_branch", 404)
            /\ UNCHANGED branches
     ELSE IF {s \in stations : s.branch_id = branch_id /\ s.is_active} # {}
       THEN /\ resp' = Status("delete_branch", 409)
            /\ UNCHANGED branches
     ELSE /\ branches' = [branches EXCEPT ![branch_id].is_active = FALSE]
          /\ resp' = Status("delete_branch", 204)
  /\ UNCHANGED <<campaigns, images, stations, redis, sync_logs>>

\* uuid4 default of Branch.id: an id no stored branch has
NewBranchId(table, ids) == CHOOSE id \in ids \ DOMAIN table : TRUE

\* POST /branches; branch_data holds code, state and is_active
create_branch(role, branch_data, ids) ==
  /\ ids \ DOMAIN branches # {}
  /\ IF role # "admin"
       THEN /\ resp' = Status("create_branch", 403)
            /\ UNCHANGED branches
     ELSE IF ~is_valid_state(branch_data.state)
       THEN /\ resp' = Status("create_branch", 422)
            /\ UNCHANGED branches
     ELSE IF \E b \in DOMAIN branches : branches[b].code = branch_data.code
       THEN /\ resp' = Status("create_branch", 409)
            /\ UNCHANGED branches
     ELSE /\ branches' =
               [b \in DOMAIN branches \cup {NewBranchId(branches, ids)} |->
                  IF b \in DOMAIN branches THEN branches[b]
                  ELSE [code |-> branch_data.code,
                        state |-> Upper(branch_data.state),
                        is_active |-> branch_data.is_active]]
          /\ resp' = Status("create_branch", 201)
  /\ UNCHANGED <<campaigns, images, stations, redis, sync_logs>>

(***************************************************************************)
(* Protheus synchronization: ProtheusSyncService.                          *)
(***************************************************************************)
\* range(101, 116): the stations every synchronized branch gets
SYNC_STATION_CODES ==
  {"101", "102", "103", "104", "105", "106", "107", "108",
   "109", "110", "111", "112", "113", "114", "115"}

\* _create_stations_for_branch: the stations of the range the branch lacks
create_stations_for_branch(table, branch_id) ==
  table \cup
    {[branch_id |-> branch_id, code |-> code, is_active |-> TRUE] :
       code \in {c \in SYNC_STATION_CODES :
                   ~\E s \in table : s.branch_id = branch_id /\ s.code = c}}

\* the body of the loop of sync_branches for one row pb of SYS_COMPANY;
\* dir holds the two tables of the session
SyncRow(pb, dir, ids) ==
  LET existing == {b \in DOMAIN dir.branches :
                     dir.branches[b].code = pb.branch_code}
      branch_id == IF existing # {} THEN CHOOSE b \in existing : TRUE
                   ELSE NewBranchId(dir.branches, ids)
      row == [code |-> pb.branch_code, state |-> pb.state, is_active |-> TRUE]
  IN [branches |-> [b \in DOMAIN dir.branches \cup {branch_id} |->
                      IF b = branch_id THEN row ELSE dir.branches[b]],
      stations |-> create_stations_for_branch(dir.stations, branch_id)]

RECURSIVE SyncRows(_, _, _)
SyncRows(protheus_branches, dir, ids) ==
  IF protheus_branches = <<>> THEN dir
  ELSE SyncRows(Tail(protheus_branches),
                SyncRow(Head(protheus_branches), dir, ids), ids)

\* the codes of the rows that are not stored yet
NewCodes(protheus_branches) ==
  {protheus_branches[i].branch_code : i \in DOMAIN protheus_branches}
    \ {branches[b].code : b \in DOMAIN branches}

\* ProtheusSyncService.sync_branches: the tables after the commit and the
\* status of the statistics; no row fetched leaves the tables alone
SyncResult(protheus_branches, ids) ==
  IF protheus_branches = <<>>
    THEN [branches |-> branches, stations |-> stations, status |-> "error"]
    ELSE LET dir == SyncRows(protheus_branches,
                             [branches |-> branches, stations |-> stations], ids)
         IN [branches |-> dir.branches, stations |-> dir.stations,
             status |-> "success"]

(***************************************************************************)
(* Synchronization log: the admin endpoint, its background task and the    *)
(* job of the scheduler.  A row of sync_logs is its status, started_at,    *)
(* finished_at and triggered_by; its id is its position in the table.      *)
(***************************************************************************)
SYNC_TIMEOUT == 600

\* the rows the handlers read with status "running"
RunningSyncs == {i \in DOMAIN sync_logs : sync_logs[i].status = "running"}

\* finished_at of a run that has not ended
NotFinished == <<>>

\* datetime.now() never precedes a time already written to the table
Elapsed(now) ==
  \A i \in DOMAIN sync_logs :
    /\ sync_logs[i].started_at <= now
    /\ IF sync_logs[i].finished_at = NotFinished THEN TRUE
       ELSE sync_logs[i].finished_at[1] <= now

\* SyncLog(sync_type="branches", started_at=now, status="running", ...)
NewSyncLog(now, triggered_by) ==
  [status |-> "running", started_at |-> now, finished_at |-> NotFinished,
   triggered_by |-> triggered_by]

\* POST /admin/sync/branches: first() picks one of the running rows
sync_branches(role, now, ids) ==
  /\ Len(sync_logs) + 1 \in ids
  /\ Elapsed(now)
  /\ IF role # "admin"
       THEN /\ resp' = Status("sync_branches", 403)
            /\ UNCHANGED sync_logs
     ELSE IF RunningSyncs = {}
       THEN /\ sync_logs' = Append(sync_logs, NewSyncLog(now, "manual"))
            /\ resp' = [kind |-> "sync_branches", http |-> 200,
                        sync_id |-> Len(sync_logs')]
     ELSE \E running_sync \in RunningSyncs :
            IF now - sync_logs[running_sync].started_at < SYNC_TIMEOUT
              THEN /\ resp' = Status("sync_branches", 409)
                   /\ UNCHANGED sync_logs
              ELSE /\ sync_logs' =
                        Append([sync_logs EXCEPT ![running_sync].status = "error"],
                               NewSyncLog(now, "manual"))
                   /\ resp' = [kind |-> "sync_branches", http |-> 200,
                               sync_id |-> Len(sync_logs')]
  /\ UNCHANGED <<campaigns, images, branches, stations, redis>>

\* the synchronization and the update of its row that end a started run
FinishSync(sync_log_id, protheus_branches, now, ids) ==
  LET stats == SyncResult(protheus_branches, ids)
  IN /\ Elapsed(now)
     /\ Cardinality(NewCodes(protheus_branches)) <= Cardinality(ids \ DOMAIN branches)
     /\ branches' = stats.branches
     /\ stations' = stats.stations
     /\ sync_logs' = [sync_logs EXCEPT ![sync_log_id].status = stats.status,
                                       ![sync_log_id].finished_at = <<now>>]
     /\ UNCHANGED <<campaigns, images, redis, resp>>

\* the background task the endpoint adds
run_sync_task(sync_log_id, protheus_branches, now, ids) ==
  /\ sync_log_id \in DOMAIN sync_logs
  /\ sync_logs[sync_log_id].triggered_by = "manual"
  /\ sync_logs[sync_log_id].finished_at = NotFinished
  /\ FinishSync(sync_log_id, protheus_branches, now, ids)

\* SchedulerService.sync_branches_job up to the commit of its row
sync_branches_job_begin(now, ids) ==
  /\ Len(sync_logs) + 1 \in ids
  /\ Elapsed(now)
  /\ sync_logs' = Append(sync_logs, NewSyncLog(now, "scheduler"))
  /\ UNCHANGED <<campaigns, images, branches, stations, redis, resp>>

\* SchedulerService.sync_branches_job from the synchronization on
sync_branches_job_end(sync_log_id, protheus_branches, now, ids) ==
  /\ sync_log_id \in DOMAIN sync_logs
  /\ sync_logs[sync_log_id].triggered_by = "scheduler"
  /\ sync_logs[sync_log_id].finished_at = NotFinished
  /\ FinishSync(sync_log_id, protheus_branches, now, ids)

JOB_ID == "sync_branches_daily"

\* POST /admin/scheduler/trigger/{job_id}: the background task calls the
\* function of the job, when the scheduler has a job of that id
trigger_scheduled_job(role, job_id, now, ids) ==
  /\ Len(sync_logs) + 1 \in ids
  /\ Elapsed(now)
  /\ IF role # "admin"
       THEN /\ resp' = Status("trigger_scheduled_job", 403)
            /\ UNCHANGED sync_logs
       ELSE /\ resp' = Status("trigger_scheduled_job", 200)
            /\ sync_logs' = IF job_id = JOB_ID
                              THEN Append(sync_logs, NewSyncLog(now, "scheduler"))
                              ELSE sync_logs
  /\ UNCHANGED <<campaigns, images, branches, stations, redis>>

(***************************************************************************)
(* Station handlers.                                                       *)
(***************************************************************************)
SetActive(station, value) ==
  (stations \ {station}) \cup {[station EXCEPT !.is_active = value]}

\* PUT /stations/{id} with is_active set in the request
update_station(role, station, is_active) ==
  /\ station \in stations
  /\ IF role # "admin"
       THEN /\ resp' = Status("update_station", 403)
            /\ UNCHANGED stations
       ELSE /\ stations' = SetActive(station, is_active)
            /\ resp' = Status("update_station", 200)
  /\ UNCHANGED <<campaigns, images, branches, redis, sync_logs>>

\* the count of active campaigns that reference the station
ReferencingCampaigns(station) ==
  {id \in StoredIds :
     /\ campaigns[id].status = "active"
     /\ campaigns[id].is_deleted = FALSE
     /\ branches[station.branch_id].code \in campaigns[id].branches
     /\ station.code \in campaigns[id].stations}

delete_station(role, station) ==
  /\ station \in stations
  /\ IF role # "admin"
       THEN /\ resp' = Status("delete_station", 403)
            /\ UNCHANGED stations
     ELSE IF ReferencingCampaigns(station) # {}
       THEN /\ resp' = Status("delete_station", 409)
            /\ UNCHANGED stations
     ELSE /\ stations' = SetActive(station, FALSE)
          /\ resp' = Status("delete_station", 204)
  /\ UNCHANGED <<campaigns, images, branches, redis, sync_logs>>

(***************************************************************************)
(* Specifications.                                                         *)
(***************************************************************************)
NoResponse == Status("none", 0)

\* the seeded directory: two branches that both own a station "001"
SeedBranches ==
  [B1 |-> [code |-> "010101", state |-> "SP", is_active |-> TRUE],
   B2 |-> [code |-> "020202", state |-> "RS", is_active |-> TRUE]]

SeedStations ==
  {[branch_id |-> "B1", code |-> "001", is_active |-> TRUE],
   [branch_id |-> "B2", code |-> "001", is_active |-> TRUE]}

\* a request: the station code sent and the branch of the terminal sending it
Requests ==
  {<<s.code, s.branch_id>> : s \in stations} \cup {<<"002", NULL>>}

\* the database answers every query
NOFAULT == {"none"}

ResolveStep(nows, dbfails) ==
  \E rq \in Requests : \E now \in nows :
    \/ active_by_station(rq[1], rq[2], now, dbfails)
    \/ get_active_for_station(rq[1], rq[2], now, dbfails)

StationStep ==
  \E role \in ROLES : \E station \in stations :
    \/ \E is_active \in BOOLEAN : update_station(role, station, is_active)
    \/ delete_station(role, station)

(* Targeting: campaigns of every population of the three arrays, all       *)
(* active and inside their window, over a directory whose stations are     *)
(* activated and deactivated.                                              *)
TargetIds == 1..2

TargetPayloads ==
  [status : {"active"}, start_date : {0}, end_date : {MaxTime},
   branches : {{}, {"010101"}, {"020202"}},
   regions : {{}, {"Sudeste"}, {"Sul"}},
   stations : {{}, {"001"}, {"002"}},
   priority : {<<0>>}]

Init ==
  /\ campaigns = <<>>
  /\ branches = SeedBranches
  /\ stations = SeedStations
  /\ images = <<>>
  /\ redis = <<>>
  /\ resp = NoResponse
  /\ sync_logs = <<>>

Next ==
  \/ \E role \in ROLES : \E payload \in TargetPayloads :
       create_campaign(role, payload, 0, TargetIds)
  \/ \E role \in ROLES : \E id \in TargetIds : delete_campaign(role, id)
  \/ StationStep
  \/ ResolveStep({1}, NOFAULT)

Spec == Init /\ [][Next]_vars

(* Ranking: up to MaxCampaigns global campaigns of every priority, with    *)
(* equal and distinct creation times, re-prioritised by updates.           *)
RankIds == 1..MaxCampaigns

CreatedAts == {0, 1}

Priorities == {NoPriority} \cup {<<p>> : p \in 0..MaxPriority}

RankPayloads ==
  [status : {"active"}, start_date : {0}, end_date : {MaxTime},
   branches : {{}}, regions : {{}}, stations : {{}},
   priority : Priorities]

NextRank ==
  \/ \E role \in ROLES : \E payload \in RankPayloads : \E created_at \in CreatedAts :
       create_campaign(role, payload, created_at, RankIds)
  \/ \E role \in ROLES : \E id \in RankIds : \E priority \in Priorities :
       update_campaign(role, id, [priority |-> priority])
  \/ ResolveStep({1}, NOFAULT)

SpecRank == Init /\ [][NextRank]_vars

(* Catalog: global campaigns of every status and every window, soft        *)
(* deleted and paused, resolved at every time, over one station.           *)
CatalogIds == 1..2

CatalogPayloads ==
  [status : STATUSES, start_date : Times, end_date : Times,
   branches : {{}}, regions : {{}}, stations : {{}},
   priority : {<<0>>}]

OneStation == {[branch_id |-> "B1", code |-> "001", is_active |-> TRUE]}

InitCatalog ==
  /\ campaigns = <<>>
  /\ branches = SeedBranches
  /\ stations = OneStation
  /\ images = <<>>
  /\ redis = <<>>
  /\ resp = NoResponse
  /\ sync_logs = <<>>

NextCatalog ==
  \/ \E role \in ROLES : \E payload \in CatalogPayloads :
       create_campaign(role, payload, 0, CatalogIds)
  \/ \E role \in ROLES : \E id \in CatalogIds : \E status \in STATUSES :
       update_campaign(role, id, [status |-> status])
  \/ \E role \in ROLES : \E id \in CatalogIds : delete_campaign(role, id)
  \/ ResolveStep(Times, NOFAULT)

SpecCatalog == InitCatalog /\ [][NextCatalog]_vars

(* Listing: one campaign of every status and window, resolved and listed   *)
(* through the cache.                                                      *)
ListingIds == 1..1

\* str() of the db session of a request: the address of the object, which
\* the allocator gives again to the session of a later request
SESSIONS == {"0x7f01"}

CacheKeys == {CacheKey(surface, session) : surface \in DOMAIN KEY_PREFIX, session \in SESSIONS}

ListingStep ==
  \E surface \in DOMAIN KEY_PREFIX : \E now \in Times :
    \E session \in SESSIONS : \E redis_up \in BOOLEAN :
      get_all_active(surface, now, session, redis_up)

NextListing ==
  \/ \E role \in ROLES : \E payload \in CatalogPayloads :
       create_campaign(role, payload, 0, ListingIds)
  \/ \E role \in ROLES : \E id \in ListingIds : \E status \in STATUSES :
       update_campaign(role, id, [status |-> status])
  \/ \E role \in ROLES : \E id \in ListingIds : delete_campaign(role, id)
  \/ ResolveStep(Times, NOFAULT)
  \/ ListingStep
  \/ \E key \in CacheKeys : cache_expire(key)

SpecListing == InitCatalog /\ [][NextListing]_vars

(* Scenario: branch SP01 (state SP) owns active station 001; campaigns     *)
(* A (1) global priority 0, B (2) regions=[Sudeste] priority 5,            *)
(* C (3) branches=[SP01] priority 3, D (4) branches=[SP01] stations=[002]  *)
(* priority 10.                                                            *)
ScenarioIds == 1..4

ScenarioBranches == [SP01 |-> [code |-> "SP01", state |-> "SP", is_active |-> TRUE]]

ScenarioStations == {[branch_id |-> "SP01", code |-> "001", is_active |-> TRUE]}

ScenarioRow(branch_codes, region_names, station_codes, priority) ==
  [status |-> "active", start_date |-> 0, end_date |-> MaxTime,
   branches |-> branch_codes, regions |-> region_names, stations |-> station_codes,
   priority |-> <<priority>>, default_display_time |-> <<DEFAULT_DISPLAY_TIME>>,
   is_deleted |-> FALSE, created_at |-> 0]

ScenarioCampaigns ==
  <<ScenarioRow({}, {}, {}, 0),
    ScenarioRow({}, {"Sudeste"}, {}, 5),
    ScenarioRow({"SP01"}, {}, {}, 3),
    ScenarioRow({"SP01"}, {}, {"002"}, 10)>>

InitScenario ==
  /\ campaigns = ScenarioCampaigns
  /\ branches = ScenarioBranches
  /\ stations = ScenarioStations
  /\ images = <<>>
  /\ redis = <<>>
  /\ resp = NoResponse
  /\ sync_logs = <<>>

NextScenario ==
  \/ \E role \in ROLES : \E id \in ScenarioIds : delete_campaign(role, id)
  \/ StationStep
  \/ ResolveStep(Times, NOFAULT)

SpecScenario == InitScenario /\ [][NextScenario]_vars

(* Faults: global and branch campaigns over the seeded directory, resolved *)
(* while the database or the handling of a campaign can raise.             *)
FaultIds == 1..2

FaultPayloads ==
  [status : {"active"}, start_date : {0}, end_date : {MaxTime},
   branches : {{}, {"010101"}}, regions : {{}}, stations : {{}},
   priority : {<<0>>}]

NextFault ==
  \/ \E role \in ROLES : \E payload \in FaultPayloads :
       create_campaign(role, payload, 0, FaultIds)
  \/ StationStep
  \/ ResolveStep({1}, DBFAILS)

SpecFault == Init /\ [][NextFault]_vars

(* Retargeting: campaigns of every population of the three arrays whose    *)
(* arrays are then set again, one field or several at a time, by updates.  *)
RetargetIds == 1..2

RetargetValues ==
  [branches |-> {{}, {"010101"}, {"020202"}},
   regions |-> {{}, {"Sudeste"}, {"Sul"}},
   stations |-> {{}, {"001"}, {"002"}}]

\* the requests that set any of branches, regions and stations
RetargetPayloads ==
  UNION {{p \in [fields -> UNION {RetargetValues[f] : f \in fields}] :
            \A f \in fields : p[f] \in RetargetValues[f]} :
           fields \in SUBSET (DOMAIN RetargetValues) \ {{}}}

NextRetarget ==
  \/ \E role \in ROLES : \E payload \in TargetPayloads :
       create_campaign(role, payload, 0, RetargetIds)
  \/ \E role \in ROLES : \E id \in RetargetIds :
       \E payload \in RetargetPayloads : update_campaign(role, id, payload)
  \/ ResolveStep({1}, NOFAULT)

SpecRetarget == Init /\ [][NextRetarget]_vars

(* Content: global campaigns whose images are uploaded, reordered, updated *)
(* and soft-deleted, listed for the dashboard and resolved for tablets.    *)
ContentIds == 1..2

ContentPayloads ==
  [status : {"active"}, start_date : {0}, end_date : {MaxTime},
   branches : {{}}, regions : {{}}, stations : {{}},
   priority : {<<0>>, <<1>>}]

\* uploads of one or two files, each of a supported or unsupported type
Uploads == UNION {[1..n -> BOOLEAN] : n \in 1..2}

\* the id lists of a reorder request
IdLists == UNION {[1..n -> ImageIds] : n \in 0..Cardinality(ImageIds)}

\* the requests that set any of display_time and active
DisplayTimes == {NoDisplayTime, <<MIN_DISPLAY_TIME - 1>>, <<MIN_DISPLAY_TIME>>}

ImageUpdates ==
  [display_time : DisplayTimes] \cup [active : BOOLEAN]
    \cup [display_time : DisplayTimes, active : BOOLEAN]

ImageStep ==
  \E role \in ROLES : \E campaign_id \in ContentIds :
    \/ \E files \in Uploads : upload_images(role, campaign_id, files, ImageIds)
    \/ \E order \in IdLists : reorder_images(role, campaign_id, order)
    \/ \E image_id \in ImageIds : delete_image(role, campaign_id, image_id)
    \/ \E image_id \in ImageIds : \E update_data \in ImageUpdates :
         update_image(role, image_id, update_data)
    \/ list_campaign_images(campaign_id)

NextContent ==
  \/ \E role \in ROLES : \E payload \in ContentPayloads :
       create_campaign(role, payload, 0, ContentIds)
  \/ ImageStep
  \/ ResolveStep({1}, NOFAULT)

SpecContent == InitCatalog /\ [][NextContent]_vars

(* Directory: the seeded branches and stations, activated, deactivated and *)
(* moved to another state by the branch and station handlers.              *)
BranchIds == {"B1", "B2", "B9"}

\* the requests that set state or is_active
BranchUpdates ==
  [state : {"sp", "rs", "XX"}] \cup [is_active : BOOLEAN]

BranchStep ==
  \E role \in ROLES : \E branch_id \in BranchIds :
    \/ \E branch_data \in BranchUpdates : update_branch(role, branch_id, branch_data)
    \/ delete_branch(role, branch_id)

NextDirectory ==
  \/ BranchStep
  \/ StationStep

SpecDirectory == Init /\ [][NextDirectory]_vars

(* Synchronization: the seeded directory under the branch handlers and the *)
(* Protheus synchronizations started by the endpoint and by the scheduler. *)
\* the ids the sequence of sync_logs.id gives
SyncIds == 1..2

SyncBranchIds == {"B1", "B2", "B3"}

\* the times at which requests arrive and runs end
SyncTimes == {0, 300, 600}

\* the rows SYS_COMPANY can hold: a stored branch and a new one, with a
\* Brazilian state or the code of a foreign address
ProtheusRows ==
  [branch_code : {"020202", "030303"}, state : {"SP", "EX"}]

\* the results of BRANCHES_QUERY, ordered by code; none when the fetch fails
ProtheusBranches ==
  {<<>>} \cup {<<pb>> : pb \in ProtheusRows}
    \cup {<<a, b>> : a \in {pb \in ProtheusRows : pb.branch_code = "020202"},
                     b \in {pb \in ProtheusRows : pb.branch_code = "030303"}}

BranchCreates ==
  [code : {"030303"}, state : {"sp", "XX"}, is_active : {TRUE}]

\* the requests that move a branch to another state
StateUpdates == [state : {"rs", "XX"}]

SyncStep ==
  \E now \in SyncTimes :
    \/ \E role \in ROLES : sync_branches(role, now, SyncIds)
    \/ sync_branches_job_begin(now, SyncIds)
    \/ \E role \in ROLES : \E job_id \in {JOB_ID, "none"} :
         trigger_scheduled_job(role, job_id, now, SyncIds)
    \/ \E sync_log_id \in SyncIds : \E protheus_branches \in ProtheusBranches :
         \/ run_sync_task(sync_log_id, protheus_branches, now, SyncBranchIds)
         \/ sync_branches_job_end(sync_log_id, protheus_branches, now, SyncBranchIds)

NextSync ==
  \/ \E role \in ROLES : \E branch_data \in BranchCreates :
       create_branch(role, branch_data, SyncBranchIds)
  \/ \E role \in ROLES : \E branch_id \in SyncBranchIds :
       \E branch_data \in StateUpdates : update_branch(role, branch_id, branch_data)
  \/ SyncStep

SpecSync == Init /\ [][NextSync]_vars

(* Deletion: global campaigns paused, re-activated and soft-deleted, read  *)
(* back by every read of the catalog, by requests of the roles given.      *)
DeletionIds == 1..2

DeletionPayloads ==
  [status : {"active"}, start_date : {0}, end_date : {MaxTime},
   branches : {{}}, regions : {{}}, stations : {{}},
   priority : {<<0>>}]

\* the requests that set status or is_deleted
DeletionUpdates ==
  [status : {"active", "paused"}] \cup [is_deleted : BOOLEAN]

NextDeletion(roles) ==
  \/ \E role \in roles : \E payload \in DeletionPayloads :
       create_campaign(role, payload, 0, DeletionIds)
  \/ \E role \in roles : \E id \in DeletionIds : \E payload \in DeletionUpdates :
       update_campaign(role, id, payload)
  \/ \E role \in roles : \E id \in DeletionIds : delete_campaign(role, id)
  \/ list_campaigns
  \/ \E id \in DeletionIds : get_campaign(id)
  \/ ResolveStep({1}, NOFAULT)
  \/ \E surface \in DOMAIN KEY_PREFIX : \E session \in SESSIONS :
       \E redis_up \in BOOLEAN : get_all_active(surface, 1, session, redis_up)
  \/ \E key \in CacheKeys : cache_expire(key)

SpecDeletion == InitCatalog /\ [][NextDeletion(ROLES)]_vars

\* the roles below admin
NONADMIN == ROLES \ {"admin"}

SpecNonAdmin == InitCatalog /\ [][NextDeletion(NONADMIN)]_vars

(* Renumbering: three images over two campaigns, uploaded, reordered,      *)
(* switched off and on and soft-deleted.                                   *)
RenumberImageIds == 1..3

\* the id lists of a reorder request that name an image at most once
RenumberLists ==
  UNION {{o \in [1..n -> RenumberImageIds] : \A i, j \in 1..n : i # j => o[i] # o[j]} :
           n \in 0..Cardinality(RenumberImageIds)}

NextRenumber ==
  \/ \E role \in ROLES : \E payload \in DeletionPayloads :
       create_campaign(role, payload, 0, ContentIds)
  \/ \E role \in ROLES : \E campaign_id \in ContentIds : \E files \in Uploads :
       upload_images(role, campaign_id, files, RenumberImageIds)
  \/ \E role \in ROLES : \E campaign_id \in ContentIds : \E order \in RenumberLists :
       reorder_images(role, campaign_id, order)
  \/ \E role \in ROLES : \E image_id \in RenumberImageIds : \E active \in BOOLEAN :
       update_image(role, image_id, [active |-> active])
  \/ \E role \in ROLES : \E campaign_id \in ContentIds : \E image_id \in RenumberImageIds :
       delete_image(role, campaign_id, image_id)

SpecRenumber == InitCatalog /\ [][NextRenumber]_vars

(***************************************************************************)
(* Properties of a resolve response.  Every handler overwrites resp, so a  *)
(* resolve response in resp was computed from the catalog and directory of *)
(* the same state.                                                         *)
(***************************************************************************)
ResolveOK == resp.kind = "resolve" /\ resp.http = 200

Returned == {resp.campaigns[i].id : i \in DOMAIN resp.campaigns}

\* not deleted, status active, start_date <= now <= end_date
Eligible(c, now) ==
  /\ ~c.is_deleted
  /\ c.status = "active"
  /\ c.start_date <= now
  /\ now <= c.end_date

AllEmpty(c) == c.branches = {} /\ c.regions = {} /\ c.stations = {}

\* the stored campaigns that are eligible at the time of the response
EligibleIds == {id \in StoredIds : Eligible(campaigns[id], resp.timestamp)}

\* the active station the lookup resolved the requested code to
ResolvedStations ==
  {s \in stations : /\ s.is_active
                    /\ s.code = resp.station_code
                    /\ branches[s.branch_id].code = resp.branch_code}

NoActiveStation ==
  {s \in stations : s.is_active /\ s.code = resp.station_code} = {}

\* C3: every eligible campaign whose three arrays are empty is in the
\* resolve result, whatever station code was requested.
C3_GlobalInclusion ==
  ResolveOK =>
    \A id \in EligibleIds : AllEmpty(campaigns[id]) => id \in Returned

C3_Witness ==
  /\ ResolveOK
  /\ NoActiveStation
  /\ \E id \in Returned : AllEmpty(campaigns[id])
  /\ \E id \in EligibleIds : id \notin Returned

\* C4: a campaign with branches and stations set is returned to a terminal
\* only if the requested code is in stations and the branch that owns the
\* terminal's station is in branches.
C4_StationNeedsTerminalBranch ==
  (ResolveOK /\ resp.terminal # NULL) =>
    \A id \in Returned :
      (campaigns[id].branches # {} /\ campaigns[id].stations # {}) =>
        /\ resp.station_code \in campaigns[id].stations
        /\ branches[resp.terminal].code \in campaigns[id].branches

\* C5: an eligible campaign with only regions set is returned iff the code
\* resolved to an active station whose branch's region is in regions.
C5_RegionalTier ==
  ResolveOK =>
    \A id \in EligibleIds :
      LET c == campaigns[id]
      IN (c.regions # {} /\ c.branches = {} /\ c.stations = {}) =>
           (id \in Returned <=>
              \E s \in ResolvedStations :
                get_region_by_state(branches[s.branch_id].state) \in c.regions)

C5_Witness ==
  /\ ResolveOK
  /\ \E id \in Returned :
       /\ campaigns[id].regions # {}
       /\ campaigns[id].branches = {}
       /\ campaigns[id].stations = {}
  /\ \E id \in EligibleIds \ Returned :
       /\ campaigns[id].regions # {}
       /\ campaigns[id].branches = {}
       /\ campaigns[id].stations = {}

\* C6: an eligible campaign with branches set and stations empty is
\* returned iff the code resolved to an active station whose branch code is
\* in branches.
C6_BranchTier ==
  ResolveOK =>
    \A id \in EligibleIds :
      LET c == campaigns[id]
      IN (c.branches # {} /\ c.stations = {}) =>
           (id \in Returned <=>
              \E s \in ResolvedStations :
                branches[s.branch_id].code \in c.branches)

C6_Witness ==
  /\ ResolveOK
  /\ \E id \in Returned :
       campaigns[id].branches # {} /\ campaigns[id].stations = {}
  /\ \E id \in EligibleIds \ Returned :
       campaigns[id].branches # {} /\ campaigns[id].stations = {}

\* C9: a code that matches no active station does not fail the request:
\* the result is exactly the eligible campaigns with three empty arrays,
\* and branch_code and region are null.
C9_UnknownStationDegrade ==
  (resp.kind = "resolve" /\ NoActiveStation) =>
    /\ resp.http = 200
    /\ Returned = {id \in EligibleIds : AllEmpty(campaigns[id])}
    /\ resp.branch_code = NULL
    /\ resp.region = NULL

C9_Witness ==
  /\ ResolveOK
  /\ resp.station_code = "001"
  /\ NoActiveStation
  /\ Returned # {}
  /\ \E id \in EligibleIds : ~AllEmpty(campaigns[id])

\* ids of the returned campaigns, in the order of the response
ReturnedIds(r) == [i \in DOMAIN r.campaigns |-> r.campaigns[i].id]

\* C1: in a resolve result a campaign with a strictly higher priority comes
\* earlier than one with a lower priority.
C1_PriorityDescending ==
  ResolveOK =>
    \A i, j \in DOMAIN resp.campaigns :
      LET a == campaigns[resp.campaigns[i].id]
          b == campaigns[resp.campaigns[j].id]
      IN (a.priority # NoPriority /\ b.priority # NoPriority
          /\ a.priority[1] > b.priority[1]) => i < j

\* C2: in the scenario, resolve("001", now) returns exactly [B, C, A].
C2_Scenario ==
  (/\ ResolveOK
   /\ resp.station_code = "001"
   /\ campaigns = ScenarioCampaigns
   /\ stations = ScenarioStations) =>
    ReturnedIds(resp) = <<2, 3, 1>>

\* C7: a campaign is in a resolve result or in an all-active listing only
\* if it is not deleted, has status active and is inside its window.
C7_CandidateFilter ==
  (ResolveOK \/ resp.kind = "listing") =>
    \A id \in Returned : Eligible(campaigns[id], resp.timestamp)

\* C8: the window is inclusive at both ends: a campaign that is otherwise
\* eligible is returned when start_date = now and when end_date = now, and
\* is not returned when end_date = now - 1 or start_date > now.
C8_WindowInclusive ==
  ResolveOK =>
    \A id \in StoredIds :
      LET c == campaigns[id]
          now == resp.timestamp
      IN (~c.is_deleted /\ c.status = "active" /\ AllEmpty(c)) =>
           /\ (c.start_date = now /\ now <= c.end_date) => id \in Returned
           /\ (c.end_date = now /\ c.start_date <= now) => id \in Returned
           /\ c.end_date = now - 1 => id \notin Returned
           /\ c.start_date > now => id \notin Returned

C8_Witness ==
  /\ ResolveOK
  /\ \E id \in Returned :
       campaigns[id].start_date = resp.timestamp /\ campaigns[id].end_date = resp.timestamp
  /\ \E id \in StoredIds \ Returned :
       /\ ~campaigns[id].is_deleted
       /\ campaigns[id].status = "active"
       /\ campaigns[id].end_date = resp.timestamp - 1

\* C10: two resolve calls with the same station code and time, with the
\* catalog and the directory unchanged between them, return the same
\* campaigns in the same order.
C10_Idempotent ==
  [][(/\ ResolveOK
      /\ resp'.kind = "resolve"
      /\ resp'.http = 200
      /\ resp'.surface = resp.surface
      /\ resp'.station_code = resp.station_code
      /\ resp'.timestamp = resp.timestamp
      /\ campaigns' = campaigns
      /\ branches' = branches
      /\ stations' = stations)
     => ReturnedIds(resp') = ReturnedIds(resp)]_vars

\* the sequences of at most three of the returned ids, repetitions included
ReturnedSeqs ==
  UNION {[1..n -> Returned] : n \in 0..3}

FirstIndex(seq, x) ==
  CHOOSE i \in DOMAIN seq : seq[i] = x /\ \A k \in 1..(i - 1) : seq[k] # x

\* C11: in every resolve result each campaign id appears at most once and
\* total is the number of distinct campaigns returned; of the occurrences of
\* an id in a ranked list the seen-loop keeps the first, the highest-ranked.
C11_Deduplication ==
  ResolveOK =>
    /\ \A i, j \in DOMAIN resp.campaigns :
         resp.campaigns[i].id = resp.campaigns[j].id => i = j
    /\ resp.total = Cardinality(Returned)
    /\ \A seq \in ReturnedSeqs :
         LET kept == Unique(seq, {})
         IN /\ {kept[i] : i \in DOMAIN kept} = {seq[i] : i \in DOMAIN seq}
            /\ \A i, j \in DOMAIN kept :
                 i < j => FirstIndex(seq, kept[i]) < FirstIndex(seq, kept[j])

C11_Witness ==
  /\ ResolveOK
  /\ resp.total = MaxCampaigns
  /\ \E i, j \in DOMAIN resp.campaigns :
       resp.campaigns[i].priority # resp.campaigns[j].priority

\* C12: a resolve whose catalog query fails answers with a server error
\* and no campaign list, for a known and for an unknown station code, and
\* nothing else makes a resolve answer with an error.
C12_CatalogFailurePropagated ==
  resp.kind = "resolve" =>
    (resp.dbfail = "catalog" <=> resp.http # 200)

\* C13: an error raised while one campaign is classified or ranked removes
\* at most that campaign: of the eligible campaigns with three empty arrays
\* at most one is missing from the response.
C13_ErrorIsolation ==
  (resp.kind = "resolve" /\ resp.dbfail = "classify") =>
    /\ resp.http = 200
    /\ Cardinality({id \in EligibleIds : AllEmpty(campaigns[id])} \ Returned) <= 1

\* C14: no returned campaign has regions and stations both set,
\* nor stations set with branches empty.
C14_UndefinedCombinations ==
  ResolveOK =>
    \A id \in Returned :
      LET c == campaigns[id]
      IN /\ ~(c.regions # {} /\ c.stations # {})
         /\ ~(c.stations # {} /\ c.branches = {})

\* C14: a resolve completes normally whatever arrays the
\* candidates have; an eligible campaign with stations set and branches
\* empty is in no result, whatever its regions; one with regions, branches
\* and stations all set is handled by the station rule, its regions
\* ignored: it is returned iff the code resolved to an active station whose
\* branch code is in branches and the code is in stations; every eligible
\* campaign with three empty arrays is still returned.
C14_StationRuleIgnoresRegions ==
  resp.kind = "resolve" =>
    /\ resp.http = 200
    /\ \A id \in EligibleIds :
         LET c == campaigns[id]
         IN /\ (c.stations # {} /\ c.branches = {}) => id \notin Returned
            /\ (c.regions # {} /\ c.branches # {} /\ c.stations # {}) =>
                 (id \in Returned <=>
                    /\ resp.station_code \in c.stations
                    /\ \E s \in ResolvedStations :
                         branches[s.branch_id].code \in c.branches)
            /\ AllEmpty(c) => id \in Returned

C14_Witness ==
  /\ ResolveOK
  /\ \E id \in Returned :
       /\ campaigns[id].branches # {}
       /\ campaigns[id].stations # {}
       /\ campaigns[id].regions # {}
       /\ resp.region \notin campaigns[id].regions
  /\ \E id \in EligibleIds \ Returned :
       /\ campaigns[id].branches = {}
       /\ resp.station_code \in campaigns[id].stations

\* what the two surfaces have in common in a response: the campaign ids in
\* order, each with its targeting_level, and branch_code and region
Matching(r) ==
  <<[i \in DOMAIN r.campaigns |-> <<r.campaigns[i].id, r.campaigns[i].targeting_level>>],
    r.branch_code, r.region>>

\* C15: a dashboard resolve and a tablet resolve of the same station code
\* at the same time, over the same catalog and directory, return the same
\* campaign ids in the same order with the same targeting_level,
\* branch_code and region.
C15_SurfacesAgree ==
  [][(/\ ResolveOK
      /\ resp'.kind = "resolve"
      /\ resp'.http = 200
      /\ resp.surface = "campaigns"
      /\ resp'.surface = "tablets"
      /\ resp'.station_code = resp.station_code
      /\ resp'.timestamp = resp.timestamp
      /\ campaigns' = campaigns
      /\ branches' = branches
      /\ stations' = stations)
     => Matching(resp') = Matching(resp)]_vars

\* the priority of a campaign as a number: None counts as 0
EffectivePriority(c) == IF c.priority = NoPriority THEN 0 ELSE c.priority[1]

\* C25: of two campaigns of equal priority in a resolve result the one
\* with the later created_at comes earlier.
C25_TieNewerFirst ==
  ResolveOK =>
    \A i, j \in DOMAIN resp.campaigns :
      LET a == campaigns[resp.campaigns[i].id]
          b == campaigns[resp.campaigns[j].id]
      IN (EffectivePriority(a) = EffectivePriority(b) /\ a.created_at > b.created_at)
           => i < j

C25_Witness ==
  /\ ResolveOK
  /\ \E i, j \in DOMAIN resp.campaigns :
       LET a == campaigns[resp.campaigns[i].id]
           b == campaigns[resp.campaigns[j].id]
       IN /\ a.priority = b.priority
          /\ a.created_at > b.created_at
          /\ resp.campaigns[i].id > resp.campaigns[j].id
  /\ \E i, j \in DOMAIN resp.campaigns :
       EffectivePriority(campaigns[resp.campaigns[i].id])
         # EffectivePriority(campaigns[resp.campaigns[j].id])

\* C26: the targeting_level of a returned campaign is the tier of the rule
\* that admitted it: global iff its three arrays are empty, regional iff
\* the regional rule admitted it, branch iff the branch rule did, station
\* iff the station rule did.
C26_LevelIsAdmittingRule ==
  ResolveOK =>
    \A i \in DOMAIN resp.campaigns :
      LET c == campaigns[resp.campaigns[i].id]
          level == resp.campaigns[i].targeting_level
      IN /\ level \in {"global", "regional", "branch", "station"}
         /\ level = "global" <=> AllEmpty(c)
         /\ level = "regional" <=>
              /\ c.regions # {} /\ c.branches = {} /\ c.stations = {}
              /\ resp.region \in c.regions
         /\ level = "branch" <=>
              /\ c.branches # {} /\ c.stations = {}
              /\ resp.branch_code \in c.branches
         /\ level = "station" <=>
              /\ c.branches # {} /\ c.stations # {}
              /\ resp.branch_code \in c.branches
              /\ resp.station_code \in c.stations

C26_Witness ==
  /\ ResolveOK
  /\ \E i \in DOMAIN resp.campaigns :
       /\ resp.campaigns[i].targeting_level = "branch"
       /\ campaigns[resp.campaigns[i].id].regions # {}
  /\ \E i \in DOMAIN resp.campaigns :
       resp.campaigns[i].targeting_level \in {"regional", "station"}

(***************************************************************************)
(* Properties of the content of a tablet response and of the image table.  *)
(***************************************************************************)
TabletOK == ResolveOK /\ resp.surface = "tablets"

\* the image entries of a tablet response
TabletImages ==
  UNION {{resp.campaigns[i].images[k] : k \in DOMAIN resp.campaigns[i].images} :
           i \in DOMAIN resp.campaigns}

\* C16: every image of a tablet response carries its own
\* display_time when that is set and the default_display_time of its
\* campaign otherwise, never null.
C16_EffectiveDisplayTime ==
  TabletOK =>
    \A i \in DOMAIN resp.campaigns :
      \A k \in DOMAIN resp.campaigns[i].images :
        LET image == resp.campaigns[i].images[k]
        IN /\ image.display_time # NoDisplayTime
           /\ image.display_time =
                IF images[image.id].display_time # NoDisplayTime
                  THEN images[image.id].display_time
                  ELSE campaigns[resp.campaigns[i].id].default_display_time

\* C16: every image of a tablet response carries the
\* display_time of its row as stored, null when the row has none, and its
\* campaign entry carries the default_display_time of the campaign; the
\* image listing of the dashboard carries for every image its own
\* display_time when that is set and the default_display_time of the
\* campaign otherwise.
C16_TabletDisplayTimeAsStored ==
  /\ TabletOK =>
       \A i \in DOMAIN resp.campaigns :
         /\ resp.campaigns[i].default_display_time =
              campaigns[resp.campaigns[i].id].default_display_time
         /\ \A k \in DOMAIN resp.campaigns[i].images :
              resp.campaigns[i].images[k].display_time =
                images[resp.campaigns[i].images[k].id].display_time
  /\ (resp.kind = "list_campaign_images" /\ resp.http = 200) =>
       \A k \in DOMAIN resp.images :
         resp.images[k].display_time =
           IF images[resp.images[k].id].display_time # NoDisplayTime
             THEN images[resp.images[k].id].display_time
             ELSE campaigns[resp.campaign_id].default_display_time

C16_Witness ==
  /\ TabletOK
  /\ \E image \in TabletImages : image.display_time = NoDisplayTime
  /\ \E image \in TabletImages : image.display_time = <<MIN_DISPLAY_TIME>>

\* C17: a tablet response lists exactly the campaigns the resolver ranked,
\* in the order of the ranking, a campaign without images included, and
\* the images of each entry are exactly the rows of that campaign with
\* active = true, each once, in ascending order of the order field.
C17_NoFurtherFiltering ==
  TabletOK =>
    /\ Returned = {id \in EligibleIds : AllEmpty(campaigns[id])}
    /\ resp.total = Len(resp.campaigns)
    /\ \A i, j \in DOMAIN resp.campaigns :
         i < j => ~KeyLess(SortKey(campaigns[resp.campaigns[i].id]),
                           SortKey(campaigns[resp.campaigns[j].id]))
    /\ \A i \in DOMAIN resp.campaigns :
         LET listed == resp.campaigns[i].images
         IN /\ {listed[k].id : k \in DOMAIN listed} =
                 {m \in StoredImages : /\ images[m].campaign_id = resp.campaigns[i].id
                                       /\ images[m].active}
            /\ \A k, l \in DOMAIN listed :
                 /\ listed[k].id = listed[l].id => k = l
                 /\ k < l => listed[k].order_index <= listed[l].order_index
            /\ \A k \in DOMAIN listed :
                 /\ listed[k].order_index = images[listed[k].id].order
                 /\ listed[k].campaign_id = resp.campaigns[i].id

C17_Witness ==
  /\ TabletOK
  /\ \E i \in DOMAIN resp.campaigns : resp.campaigns[i].images = <<>>
  /\ \E i \in DOMAIN resp.campaigns :
       LET listed == resp.campaigns[i].images
       IN /\ Len(listed) = 2
          /\ listed[1].id > listed[2].id
          /\ listed[1].order_index < listed[2].order_index

\* C18: after any sequence of create_campaign and update_campaign requests
\* every stored campaign with non-empty stations has non-empty branches.
C18_StationsRequireBranches ==
  \A id \in StoredIds :
    campaigns[id].stations # {} => campaigns[id].branches # {}

\* C19: after any sequence of uploads, reorders, updates and soft-deletes
\* of images the active images of one campaign have pairwise distinct
\* order values.
C19_OrderUnique ==
  \A a, b \in StoredImages :
    (/\ a # b
     /\ images[a].active
     /\ images[b].active
     /\ images[a].campaign_id = images[b].campaign_id)
      => images[a].order # images[b].order

(***************************************************************************)
(* Properties of the directory.                                            *)
(***************************************************************************)
\* C20: no step sets is_active of a branch to false while one of its
\* stations is active: delete_branch and update_branch with
\* is_active = false are rejected and the branch stays active.
C20_BranchDeactivationBlocked ==
  [][\A b \in DOMAIN branches :
       (/\ branches[b].is_active
        /\ \E s \in stations : s.branch_id = b /\ s.is_active)
         => branches'[b].is_active]_vars

\* C21: no step sets is_active of a station to false while a non-deleted
\* campaign with status active lists the code of its branch in branches
\* and its code in stations: delete_station and update_station with
\* is_active = false are rejected and the station stays active.
C21_StationDeactivationBlocked ==
  [][\A s \in stations :
       (s.is_active /\ ReferencingCampaigns(s) # {}) => s \in stations']_vars

(***************************************************************************)
(* Properties of the catalog.                                              *)
(***************************************************************************)
\* C22: no request of a role other than admin, to delete_campaign or to any
\* other endpoint, changes is_deleted of a campaign from false to true, and
\* no request removes a row.
C22_SoftDeleteAdminOnly ==
  [][\A id \in StoredIds :
       /\ id \in DOMAIN campaigns'
       /\ campaigns[id].is_deleted = FALSE => campaigns'[id].is_deleted = FALSE]_vars

\* the reads of the catalog: list_campaigns, get_campaign, the all-active
\* listings and the resolves
CatalogRead ==
  resp.http = 200 /\ resp.kind \in {"list_campaigns", "get_campaign", "listing", "resolve"}

\* C28: a campaign whose is_deleted is true is in the answer of no read of
\* the catalog (list_campaigns, get_campaign, all-active listing, resolve),
\* and no step changes it: update_campaign answers 404 and delete_campaign
\* is a no-op.
C28_SoftDeletePermanent ==
  /\ [][\A id \in StoredIds :
          campaigns[id].is_deleted =>
            (id \in DOMAIN campaigns' /\ campaigns'[id] = campaigns[id])]_vars
  /\ [](CatalogRead => \A id \in Returned : ~campaigns[id].is_deleted)

\* C29: every answer of an all-active listing reflects every campaign
\* mutation that returned before it: it lists exactly the campaigns that
\* are eligible in the catalog as it is when the answer is served.
C29_NoStaleListing ==
  (resp.kind = "listing" /\ resp.http = 200) => Returned = EligibleIds

(***************************************************************************)
(* Properties of the cache.                                                *)
(***************************************************************************)
\* C24: every campaign mutation (create_campaign, update_campaign,
\* delete_campaign) and every image mutation (upload_images,
\* reorder_images, delete_image, update_image of any field) invalidates,
\* before it returns, the entries of the per-station resolves of both
\* surfaces: the keys active_by_station:* and tablets_active:*.
C24_InvalidationOnMutation ==
  "invalidated" \in DOMAIN resp =>
    {"active_by_station", "tablets_active"} \subseteq resp.invalidated

(***************************************************************************)
(* Properties of the image table.                                          *)
(***************************************************************************)
\* the active images of a campaign in a table of images
ActiveOf(table, campaign_id) ==
  {i \in DOMAIN table : table[i].campaign_id = campaign_id /\ table[i].active}

\* C27: when delete_image has soft-deleted an active image of a campaign,
\* the active images that remain in the campaign have the order values
\* 1..n, n their number, in the relative order they had before, and the
\* images of the other campaigns are as they were.
C27_RenumberAfterDelete ==
  [][(resp'.kind = "delete_image" /\ resp'.http = 200) =>
       \E d \in StoredImages :
         LET survivors == ActiveOf(images', images[d].campaign_id)
         IN /\ images[d].active /\ ~images'[d].active
            /\ survivors = ActiveOf(images, images[d].campaign_id) \ {d}
            /\ {images'[i].order : i \in survivors} = 1..Cardinality(survivors)
            /\ \A a, b \in survivors :
                 images[a].order < images[b].order => images'[a].order < images'[b].order
            /\ \A i \in StoredImages :
                 images[i].campaign_id # images[d].campaign_id => images'[i] = images[i]]_vars

C27_Witness ==
  /\ resp.kind = "delete_image"
  /\ resp.http = 200
  /\ \E a, b, d \in StoredImages :
       /\ images[a].campaign_id = images[d].campaign_id
       /\ images[b].campaign_id = images[d].campaign_id
       /\ ~images[d].active
       /\ images[a].active /\ images[a].order = 1
       /\ images[b].active /\ images[b].order = 2
       /\ a > b

(***************************************************************************)
(* Properties of the synchronization.                                      *)
(***************************************************************************)
\* C23: after any sequence of create_branch, update_branch and Protheus
\* synchronizations, the state of every stored branch maps to one of the
\* five regions: no write stores an unmapped state.
C23_EveryBranchHasRegion ==
  \A b \in DOMAIN branches : get_region_by_state(branches[b].state) \in REGIONS

\* the rows a step adds to sync_logs: the synchronizations it starts
StartedSyncs == {sync_logs'[i] : i \in DOMAIN sync_logs' \ DOMAIN sync_logs}

\* C30: while a row of sync_logs has status "running" and started less than
\* 600 seconds ago, no step starts another synchronization, whether it is
\* the admin endpoint, the daily job or a triggered job of the scheduler.
C30_SyncMutualExclusion ==
  [][\A started \in StartedSyncs :
       ~\E i \in RunningSyncs :
          started.started_at - sync_logs[i].started_at < SYNC_TIMEOUT]_vars

====
